---- MODULE Spec2Model ----
(***************************************************************************)
(* Path search on a static undirected graph: dfs_path, dfs_path_iterative, *)
(* bfs_path and compare_paths of dfs_bfs_search.py, dijkstra and           *)
(* reconstruct_path of dijkstra_shortest_path.py.                          *)
(*                                                                         *)
(* Node labels are the integers 1..MaxNodes; their order stands for the    *)
(* lexicographic order of the station names that sorted() uses.            *)
(***************************************************************************)
EXTENDS Integers, Sequences, FiniteSets, TLC

\* Bounds of the model.
MaxNodes == 4
MaxBfsNodes == 5
MaxBfsEdges == 5
MaxDijkstraNodes == 3
MaxWeight == 2

\* Python's None, as a predecessor entry (previous = {node: None ...}).
None == 0
\* None as the return value of a path search.
NoPath == <<None>>

Universe == 1..MaxNodes
BfsUniverse == 1..MaxBfsNodes
DijkstraUniverse == 1..MaxDijkstraNodes
Weights == 0..MaxWeight
\* float('infinity'): above every finite sum of weights along a simple path.
Infinity == (MaxDijkstraNodes * MaxWeight) + 1

VARIABLES
    nodes,           \* graph.nodes()
    edges,           \* the undirected edges, each a two-element set
    weight,          \* edge -> its 'weight' attribute
    op,              \* the function that was called
    start, goal,     \* its arguments
    pc,              \* "call", "loop", "returned", "done"
    queue,           \* bfs_path: deque of <<node, path>>
    stack,           \* dfs_path_iterative: list of <<node, path>>
    visited,         \* the visited set of the running function
    enqueued,        \* history: node -> number of times bfs_path enqueued it
    distances,       \* dijkstra: DistanceMap
    previous,        \* dijkstra: PredecessorMap
    priority_queue,  \* dijkstra: the heap, as the sorted sequence of its entries
    finalized,       \* history: node -> its finalization record
    result,          \* the returned path, NoPath for None
    comparison       \* the dict compare_paths returns

vars == <<nodes, edges, weight, op, start, goal, pc, queue, stack, visited,
          enqueued, distances, previous, priority_queue, finalized, result,
          comparison>>

graphVars == <<nodes, edges, weight, op, start, goal>>
dijkstraVars == <<distances, previous, priority_queue, finalized>>

----------------------------------------------------------------------------
\* Helpers for Python built-ins.

Min(S) == CHOOSE x \in S : \A y \in S : x <= y
Max(S) == CHOOSE x \in S : \A y \in S : x >= y

RECURSIVE SortedDesc(_)
\* sorted(S, reverse=True)
SortedDesc(S) ==
    IF S = {} THEN <<>>
    ELSE LET m == Max(S) IN <<m>> \o SortedDesc(S \ {m})

\* Mutant of SortedAsc: the neighbors come in descending order.
SortedAsc_descending(S) == SortedDesc(S)

RECURSIVE SortedAsc(_)
\* sorted(S)
SortedAsc(S) ==
    IF S = {} THEN <<>>
    ELSE LET m == Min(S) IN <<m>> \o SortedAsc(S \ {m})

\* x in path
InPath(x, path) == \E i \in 1..Len(path) : path[i] = x

\* Truth value of a returned path: None and the empty list are falsy.
Truthy(p) == p # NoPath /\ p # <<>>

\* graph.neighbors(n)
Neighbors(n) == {m \in nodes : {n, m} \in edges}

\* All undirected edges a node set admits (no self-loops, no duplicates).
Pairs(V) == {{u, v} : u, v \in V} \ {{u} : u \in V}

----------------------------------------------------------------------------
\* dfs_path (recursive)

RECURSIVE dfs_path(_, _, _)
RECURSIVE dfs_for(_, _, _)
RECURSIVE dfs_for_first_only(_, _, _)

\* Mutant of dfs_for: the result of the first neighbor tried is returned even
\* when it is None (a missing "if new_path").
dfs_for_first_only(neighbors, g, path) ==
    IF neighbors = <<>> THEN NoPath
    ELSE LET neighbor == Head(neighbors) IN
         IF ~InPath(neighbor, path)
         THEN dfs_path(neighbor, g, path)
         ELSE dfs_for_first_only(Tail(neighbors), g, path)

\* The for loop over the sorted neighbors, lines 20-26.
dfs_for(neighbors, g, path) ==
    IF neighbors = <<>> THEN NoPath
    ELSE LET neighbor == Head(neighbors) IN
         IF ~InPath(neighbor, path)
         THEN LET new_path == dfs_path(neighbor, g, path) IN
              IF Truthy(new_path) THEN new_path
              ELSE dfs_for(Tail(neighbors), g, path)
         ELSE dfs_for(Tail(neighbors), g, path)

dfs_path(s, g, path0) ==
    LET path == Append(path0, s) IN
    IF s = g THEN path
    ELSE IF s \notin nodes THEN NoPath
    ELSE dfs_for(SortedAsc(Neighbors(s)), g, path)

----------------------------------------------------------------------------
\* dfs_path_iterative

\* State after lines 30-34.
dfs_iter_enter(s, g) ==
    IF s \notin nodes \/ g \notin nodes
    THEN [stack |-> <<>>, visited |-> {}, returned |-> TRUE, result |-> NoPath]
    ELSE [stack |-> <<<<s, <<s>>>>>>, visited |-> {}, returned |-> FALSE,
          result |-> NoPath]

RECURSIVE dfs_iter_push_current(_, _, _, _)
\* Mutant of dfs_iter_push: the pushed path is extended by the current node
\* instead of the neighbor.
dfs_iter_push_current(neighbors, path, vis, stk) ==
    IF neighbors = <<>> THEN stk
    ELSE LET neighbor == Head(neighbors) IN
         IF neighbor \notin vis
         THEN dfs_iter_push_current(Tail(neighbors), path, vis,
                Append(stk, <<neighbor, Append(path, path[Len(path)])>>))
         ELSE dfs_iter_push_current(Tail(neighbors), path, vis, stk)

RECURSIVE dfs_iter_push(_, _, _, _)
\* The for loop of lines 48-50: the stack after the pushes.
dfs_iter_push(neighbors, path, vis, stk) ==
    IF neighbors = <<>> THEN stk
    ELSE LET neighbor == Head(neighbors) IN
         IF neighbor \notin vis
         THEN dfs_iter_push(Tail(neighbors), path, vis,
                            Append(stk, <<neighbor, Append(path, neighbor)>>))
         ELSE dfs_iter_push(Tail(neighbors), path, vis, stk)

\* Mutant of dfs_iter_step: the neighbors are pushed in ascending order.
dfs_iter_step_ascending(st, g) ==
    IF st.stack = <<>>
    THEN [st EXCEPT !.returned = TRUE, !.result = NoPath]
    ELSE LET top == st.stack[Len(st.stack)]
             rest == SubSeq(st.stack, 1, Len(st.stack) - 1)
             current == top[1]
             path == top[2]
         IN  IF current = g
             THEN [st EXCEPT !.stack = rest, !.returned = TRUE, !.result = path]
             ELSE IF current \in st.visited
             THEN [st EXCEPT !.stack = rest]
             ELSE LET vis == st.visited \cup {current} IN
                  [st EXCEPT !.visited = vis,
                             !.stack = dfs_iter_push(SortedAsc(Neighbors(current)),
                                                     path, vis, rest)]

\* One evaluation of the while condition and, when it holds, one iteration.
dfs_iter_step(st, g) ==
    IF st.stack = <<>>
    THEN [st EXCEPT !.returned = TRUE, !.result = NoPath]
    ELSE LET top == st.stack[Len(st.stack)]
             rest == SubSeq(st.stack, 1, Len(st.stack) - 1)
             current == top[1]
             path == top[2]
         IN  IF current = g
             THEN [st EXCEPT !.stack = rest, !.returned = TRUE, !.result = path]
             ELSE IF current \in st.visited
             THEN [st EXCEPT !.stack = rest]
             ELSE LET vis == st.visited \cup {current} IN
                  [st EXCEPT !.visited = vis,
                             !.stack = dfs_iter_push(SortedDesc(Neighbors(current)),
                                                     path, vis, rest)]

RECURSIVE dfs_iter_while(_, _)
dfs_iter_while(st, g) ==
    IF st.returned THEN st ELSE dfs_iter_while(dfs_iter_step(st, g), g)

dfs_path_iterative(s, g) == dfs_iter_while(dfs_iter_enter(s, g), g).result

----------------------------------------------------------------------------
\* bfs_path

NoEnqueues == [n \in nodes |-> 0]

\* State after lines 56-63.
bfs_enter(s, g) ==
    IF s \notin nodes \/ g \notin nodes
    THEN [queue |-> <<>>, visited |-> {}, enqueued |-> NoEnqueues,
          returned |-> TRUE, result |-> NoPath]
    ELSE IF s = g
    THEN [queue |-> <<>>, visited |-> {}, enqueued |-> NoEnqueues,
          returned |-> TRUE, result |-> <<s>>]
    ELSE [queue |-> <<<<s, <<s>>>>>>, visited |-> {s},
          enqueued |-> [NoEnqueues EXCEPT ![s] = 1],
          returned |-> FALSE, result |-> NoPath]

RECURSIVE bfs_for_mark_current(_, _, _, _)
\* Mutant of bfs_for: visited.add(current) instead of visited.add(neighbor),
\* so that a node is marked when it is dequeued, not when it is enqueued.
bfs_for_mark_current(neighbors, path, g, st) ==
    IF neighbors = <<>> THEN st
    ELSE LET neighbor == Head(neighbors) IN
         IF neighbor \notin st.visited
         THEN LET new_path == Append(path, neighbor) IN
              IF neighbor = g
              THEN [st EXCEPT !.returned = TRUE, !.result = new_path]
              ELSE bfs_for_mark_current(Tail(neighbors), path, g,
                     [st EXCEPT !.visited = @ \cup {path[Len(path)]},
                                !.queue = Append(@, <<neighbor, new_path>>),
                                !.enqueued[neighbor] = @ + 1])
         ELSE bfs_for_mark_current(Tail(neighbors), path, g, st)

RECURSIVE bfs_for(_, _, _, _)
\* The for loop of lines 70-78.
bfs_for(neighbors, path, g, st) ==
    IF neighbors = <<>> THEN st
    ELSE LET neighbor == Head(neighbors) IN
         IF neighbor \notin st.visited
         THEN LET new_path == Append(path, neighbor) IN
              IF neighbor = g
              THEN [st EXCEPT !.returned = TRUE, !.result = new_path]
              ELSE bfs_for(Tail(neighbors), path, g,
                     [st EXCEPT !.visited = @ \cup {neighbor},
                                !.queue = Append(@, <<neighbor, new_path>>),
                                !.enqueued[neighbor] = @ + 1])
         ELSE bfs_for(Tail(neighbors), path, g, st)

\* Mutant of bfs_step: queue.pop() instead of queue.popleft().
bfs_step_pop_right(st, g) ==
    IF st.queue = <<>>
    THEN [st EXCEPT !.returned = TRUE, !.result = NoPath]
    ELSE LET current == st.queue[Len(st.queue)][1]
             path == st.queue[Len(st.queue)][2]
         IN  bfs_for(SortedAsc(Neighbors(current)), path, g,
                     [st EXCEPT !.queue = SubSeq(@, 1, Len(@) - 1)])

\* One evaluation of the while condition and, when it holds, one iteration.
bfs_step(st, g) ==
    IF st.queue = <<>>
    THEN [st EXCEPT !.returned = TRUE, !.result = NoPath]
    ELSE LET current == Head(st.queue)[1]
             path == Head(st.queue)[2]
         IN  bfs_for(SortedAsc(Neighbors(current)), path, g,
                     [st EXCEPT !.queue = Tail(@)])

RECURSIVE bfs_while(_, _)
bfs_while(st, g) ==
    IF st.returned THEN st ELSE bfs_while(bfs_step(st, g), g)

bfs_path(s, g) == bfs_while(bfs_enter(s, g), g).result

----------------------------------------------------------------------------
\* compare_paths

\* Mutant of compare_paths: the lengths count edges, not nodes.
compare_paths_edge_count(s, g) ==
    LET dfs_result == dfs_path(s, g, <<>>)
        bfs_result == bfs_path(s, g)
    IN  [start |-> s, goal |-> g,
         dfs_path |-> dfs_result,
         bfs_path |-> bfs_result,
         dfs_length |-> IF Truthy(dfs_result) THEN Len(dfs_result) - 1 ELSE 0,
         bfs_length |-> IF Truthy(bfs_result) THEN Len(bfs_result) - 1 ELSE 0]

compare_paths(s, g) ==
    LET dfs_result == dfs_path(s, g, <<>>)
        bfs_result == bfs_path(s, g)
    IN  [start |-> s, goal |-> g,
         dfs_path |-> dfs_result,
         bfs_path |-> bfs_result,
         dfs_length |-> IF Truthy(dfs_result) THEN Len(dfs_result) ELSE 0,
         bfs_length |-> IF Truthy(bfs_result) THEN Len(bfs_result) ELSE 0]

NoComparison ==
    [start |-> None, goal |-> None, dfs_path |-> NoPath, bfs_path |-> NoPath,
     dfs_length |-> 0, bfs_length |-> 0]

----------------------------------------------------------------------------
\* dijkstra

\* Tuple order of the heap entries (distance, node).
EntryLess(a, b) == a[1] < b[1] \/ (a[1] = b[1] /\ a[2] < b[2])

\* Mutant of heappush: list.append, so that the oldest entry is popped, not
\* the least.
heappush_append(heap, entry) == Append(heap, entry)

RECURSIVE heappush(_, _)
\* heapq.heappush: the heap is kept as the ascending sequence of its entries,
\* so that heappop is Head/Tail.
heappush(heap, entry) ==
    IF heap = <<>> THEN <<entry>>
    ELSE IF EntryLess(entry, Head(heap)) THEN <<entry>> \o heap
    ELSE <<Head(heap)>> \o heappush(Tail(heap), entry)

\* History of a node: how often it was finalized, how many nodes were finalized
\* before it, the popped distance and its map entries at that moment, and how
\* many stale entries of it were skipped.
NotFinalized ==
    [times |-> 0, order |-> None, popped |-> None, distance |-> None,
     previous |-> None, stale_pops |-> 0]

\* State after lines 23-30.
dijkstra_enter(s) ==
    [distances |-> [n \in nodes |-> IF n = s THEN 0 ELSE Infinity],
     previous |-> [n \in nodes |-> None],
     priority_queue |-> <<<<0, s>>>>,
     visited |-> {},
     finalized |-> [n \in nodes |-> NotFinalized],
     returned |-> FALSE]

RECURSIVE dijkstra_for_previous_always(_, _, _, _)
\* Mutant of dijkstra_for: previous[neighbor] is written for every unvisited
\* neighbor, also when the candidate distance is no improvement.
dijkstra_for_previous_always(neighbors, current_distance, current_node, st) ==
    IF neighbors = <<>> THEN st
    ELSE LET neighbor == Head(neighbors)
             rest == Tail(neighbors)
         IN
         IF neighbor \in st.visited
         THEN dijkstra_for_previous_always(rest, current_distance, current_node, st)
         ELSE LET distance == current_distance + weight[{current_node, neighbor}]
                  st1 == [st EXCEPT !.previous[neighbor] = current_node]
              IN
              IF distance < st.distances[neighbor]
              THEN dijkstra_for_previous_always(rest, current_distance, current_node,
                     [st1 EXCEPT !.distances[neighbor] = distance,
                                 !.priority_queue = heappush(@, <<distance, neighbor>>)])
              ELSE dijkstra_for_previous_always(rest, current_distance, current_node, st1)

RECURSIVE dijkstra_for_swapped(_, _, _, _)
\* Mutant of dijkstra_for: previous[current_node] = neighbor, the two nodes
\* of the predecessor entry swapped.
dijkstra_for_swapped(neighbors, current_distance, current_node, st) ==
    IF neighbors = <<>> THEN st
    ELSE LET neighbor == Head(neighbors)
             rest == Tail(neighbors)
         IN
         IF neighbor \in st.visited
         THEN dijkstra_for_swapped(rest, current_distance, current_node, st)
         ELSE LET distance == current_distance + weight[{current_node, neighbor}] IN
              IF distance < st.distances[neighbor]
              THEN dijkstra_for_swapped(rest, current_distance, current_node,
                     [st EXCEPT !.distances[neighbor] = distance,
                                !.previous[current_node] = neighbor,
                                !.priority_queue = heappush(@, <<distance, neighbor>>)])
              ELSE dijkstra_for_swapped(rest, current_distance, current_node, st)

RECURSIVE dijkstra_for(_, _, _, _)
\* The for loop of lines 43-53. The relaxations of distinct neighbors touch
\* distinct map entries and the heap holds the same entries in any push
\* order, so the order in which graph.neighbors yields them is immaterial.
dijkstra_for(neighbors, current_distance, current_node, st) ==
    IF neighbors = <<>> THEN st
    ELSE LET neighbor == Head(neighbors)
             rest == Tail(neighbors)
         IN
         IF neighbor \in st.visited
         THEN dijkstra_for(rest, current_distance, current_node, st)
         ELSE LET distance == current_distance + weight[{current_node, neighbor}] IN
              IF distance < st.distances[neighbor]
              THEN dijkstra_for(rest, current_distance, current_node,
                     [st EXCEPT !.distances[neighbor] = distance,
                                !.previous[neighbor] = current_node,
                                !.priority_queue = heappush(@, <<distance, neighbor>>)])
              ELSE dijkstra_for(rest, current_distance, current_node, st)

\* Mutant of dijkstra_step: no "if current_node in visited: continue".
dijkstra_step_no_skip(st) ==
    IF st.priority_queue = <<>>
    THEN [st EXCEPT !.returned = TRUE]
    ELSE LET current_distance == Head(st.priority_queue)[1]
             current_node == Head(st.priority_queue)[2]
             popped == [st EXCEPT !.priority_queue = Tail(@)]
             fin == [popped EXCEPT
                       !.visited = @ \cup {current_node},
                       !.finalized[current_node] =
                           [@ EXCEPT !.times = @ + 1,
                                          !.order = Cardinality(st.visited),
                                     !.popped = current_distance,
                                     !.distance = st.distances[current_node],
                                     !.previous = st.previous[current_node]]]
         IN
         IF current_distance > st.distances[current_node]
         THEN fin
         ELSE dijkstra_for(SortedAsc(Neighbors(current_node)),
                           current_distance, current_node, fin)

\* One evaluation of the while condition and, when it holds, one iteration
\* (lines 32-53); line 55 when the heap is empty.
dijkstra_step(st) ==
    IF st.priority_queue = <<>>
    THEN [st EXCEPT !.returned = TRUE]
    ELSE LET current_distance == Head(st.priority_queue)[1]
             current_node == Head(st.priority_queue)[2]
             popped == [st EXCEPT !.priority_queue = Tail(@)]
         IN
         IF current_node \in st.visited
         THEN [popped EXCEPT !.finalized[current_node].stale_pops = @ + 1]
         ELSE LET fin == [popped EXCEPT
                            !.visited = @ \cup {current_node},
                            !.finalized[current_node] =
                                [@ EXCEPT !.times = @ + 1,
                                          !.order = Cardinality(st.visited),
                                          !.popped = current_distance,
                                          !.distance = st.distances[current_node],
                                          !.previous = st.previous[current_node]]]
              IN
              IF current_distance > st.distances[current_node]
              THEN fin
              ELSE dijkstra_for(SortedAsc(Neighbors(current_node)),
                                current_distance, current_node, fin)

RECURSIVE reconstruct_walk(_, _, _)
\* The while loop of lines 62-64: the nodes in the order they are appended.
reconstruct_walk(prev, current, path) ==
    IF current = None THEN path
    ELSE reconstruct_walk(prev, prev[current], Append(path, current))

\* list.reverse()
Reverse(s) == [i \in 1..Len(s) |-> s[Len(s) + 1 - i]]

\* Mutant of reconstruct_path: the walked path is returned without checking
\* that it begins at the source.
reconstruct_path_unchecked(prev, s, end) ==
    Reverse(reconstruct_walk(prev, end, <<>>))

reconstruct_path(prev, s, end) ==
    LET path == Reverse(reconstruct_walk(prev, end, <<>>)) IN
    IF path # <<>> /\ path[1] = s THEN path ELSE <<>>

----------------------------------------------------------------------------
\* The calls as a state machine.

SearchOps == {"dfs_path", "dfs_path_iterative", "bfs_path", "compare_paths"}

Idle ==
    /\ queue = <<>>
    /\ stack = <<>>
    /\ visited = {}
    /\ enqueued = NoEnqueues
    /\ distances = <<>>
    /\ previous = <<>>
    /\ priority_queue = <<>>
    /\ finalized = <<>>
    /\ result = NoPath
    /\ comparison = NoComparison
    /\ pc = "call"

\* A search is called on some graph over the labels, with endpoints that may
\* or may not be nodes of it.
Init ==
    /\ nodes \in SUBSET Universe
    /\ edges \in SUBSET Pairs(nodes)
    /\ weight = [e \in edges |-> 1]
    /\ op \in SearchOps
    /\ start \in Universe
    /\ goal \in Universe
    /\ Idle

\* bfs_path is called on a larger graph of at most MaxBfsEdges edges, between
\* two of its nodes.
InitBfs ==
    /\ nodes = BfsUniverse
    /\ edges \in {E \in SUBSET Pairs(nodes) : Cardinality(E) <= MaxBfsEdges}
    /\ weight = [e \in edges |-> 1]
    /\ op = "bfs_path"
    /\ start \in nodes
    /\ goal \in nodes
    /\ Idle

\* dijkstra is called on a graph with nonnegative weights, from one of its nodes.
InitDijkstra ==
    /\ nodes = DijkstraUniverse
    /\ edges \in SUBSET Pairs(nodes)
    /\ weight \in [edges -> Weights]
    /\ op = "dijkstra"
    /\ start \in nodes
    /\ goal = None
    /\ Idle

DfsPath ==
    /\ op = "dfs_path" /\ pc = "call"
    /\ result' = dfs_path(start, goal, <<>>)
    /\ pc' = "done"
    /\ UNCHANGED <<graphVars, dijkstraVars, queue, stack, visited, enqueued, comparison>>

DfsIterativeCall ==
    /\ op = "dfs_path_iterative" /\ pc = "call"
    /\ LET st == dfs_iter_enter(start, goal) IN
        /\ stack' = st.stack
        /\ visited' = st.visited
        /\ result' = st.result
        /\ pc' = IF st.returned THEN "done" ELSE "loop"
    /\ UNCHANGED <<graphVars, dijkstraVars, queue, enqueued, comparison>>

DfsIterativeStep ==
    /\ op = "dfs_path_iterative" /\ pc = "loop"
    /\ LET st == dfs_iter_step([stack |-> stack, visited |-> visited,
                                returned |-> FALSE, result |-> result], goal) IN
        /\ stack' = st.stack
        /\ visited' = st.visited
        /\ result' = st.result
        /\ pc' = IF st.returned THEN "done" ELSE "loop"
    /\ UNCHANGED <<graphVars, dijkstraVars, queue, enqueued, comparison>>

BfsCall ==
    /\ op = "bfs_path" /\ pc = "call"
    /\ LET st == bfs_enter(start, goal) IN
        /\ queue' = st.queue
        /\ visited' = st.visited
        /\ enqueued' = st.enqueued
        /\ result' = st.result
        /\ pc' = IF st.returned THEN "done" ELSE "loop"
    /\ UNCHANGED <<graphVars, dijkstraVars, stack, comparison>>

BfsStep ==
    /\ op = "bfs_path" /\ pc = "loop"
    /\ LET st == bfs_step([queue |-> queue, visited |-> visited,
                           enqueued |-> enqueued, returned |-> FALSE,
                           result |-> result], goal) IN
        /\ queue' = st.queue
        /\ visited' = st.visited
        /\ enqueued' = st.enqueued
        /\ result' = st.result
        /\ pc' = IF st.returned THEN "done" ELSE "loop"
    /\ UNCHANGED <<graphVars, dijkstraVars, stack, comparison>>

ComparePaths ==
    /\ op = "compare_paths" /\ pc = "call"
    /\ comparison' = compare_paths(start, goal)
    /\ pc' = "done"
    /\ UNCHANGED <<graphVars, dijkstraVars, queue, stack, visited, enqueued, result>>

DijkstraCall ==
    /\ op = "dijkstra" /\ pc = "call"
    /\ LET st == dijkstra_enter(start) IN
        /\ distances' = st.distances
        /\ previous' = st.previous
        /\ priority_queue' = st.priority_queue
        /\ visited' = st.visited
        /\ finalized' = st.finalized
    /\ pc' = "loop"
    /\ UNCHANGED <<graphVars, queue, stack, enqueued, result, comparison>>

DijkstraStep ==
    /\ op = "dijkstra" /\ pc = "loop"
    /\ LET st == dijkstra_step([distances |-> distances, previous |-> previous,
                                priority_queue |-> priority_queue,
                                visited |-> visited, finalized |-> finalized,
                                returned |-> FALSE]) IN
        /\ distances' = st.distances
        /\ previous' = st.previous
        /\ priority_queue' = st.priority_queue
        /\ visited' = st.visited
        /\ finalized' = st.finalized
        /\ pc' = IF st.returned THEN "returned" ELSE "loop"
    /\ UNCHANGED <<graphVars, queue, stack, enqueued, result, comparison>>

\* reconstruct_path on the returned predecessor map, for a target of the graph
\* (as find_all_shortest_paths calls it).
ReconstructPath ==
    /\ op = "dijkstra" /\ pc = "returned"
    /\ \E target \in nodes :
        /\ goal' = target
        /\ result' = reconstruct_path(previous, start, target)
    /\ pc' = "done"
    /\ UNCHANGED <<nodes, edges, weight, op, start, dijkstraVars, queue, stack,
                   visited, enqueued, comparison>>

Next ==
    \/ DfsPath
    \/ DfsIterativeCall
    \/ DfsIterativeStep
    \/ BfsCall
    \/ BfsStep
    \/ ComparePaths

NextBfs ==
    \/ BfsCall
    \/ BfsStep

NextDijkstra ==
    \/ DijkstraCall
    \/ DijkstraStep
    \/ ReconstructPath

Spec == Init /\ [][Next]_vars

SpecBfs == InitBfs /\ [][NextBfs]_vars

SpecDijkstra == InitDijkstra /\ [][NextDijkstra]_vars

----------------------------------------------------------------------------
\* Reference notions of the specification: simple paths, reachability, edge
\* count and cumulative weight.

Range(p) == {p[i] : i \in 1..Len(p)}
Last(p) == p[Len(p)]

\* p is a path of the graph from s to t: nodes of the graph, consecutive
\* nodes joined by an edge.
IsPath(p, s, t) ==
    /\ Len(p) >= 1
    /\ p[1] = s
    /\ Last(p) = t
    /\ \A i \in 1..(Len(p) - 1) : {p[i], p[i + 1]} \in edges

\* No node occurs twice.
IsSimple(p) == \A i, j \in 1..Len(p) : p[i] = p[j] => i = j

Extend(P) ==
    UNION {{Append(p, m) : m \in Neighbors(Last(p)) \ Range(p)} : p \in P}

RECURSIVE PathsUpTo(_, _)
PathsUpTo(P, k) ==
    IF k = 0 \/ P = {} THEN P ELSE P \cup PathsUpTo(Extend(P), k - 1)

\* Every simple path of the graph that begins at s.
SimplePathsFrom(s) ==
    IF s \in nodes THEN PathsUpTo({<<s>>}, Cardinality(nodes)) ELSE {}

\* Those of a set of paths that end at t.
EndingAt(P, t) == {p \in P : Last(p) = t}

SimplePaths(s, t) == EndingAt(SimplePathsFrom(s), t)

Connected(s, t) == SimplePaths(s, t) # {}

EdgeCount(p) == Len(p) - 1

RECURSIVE PathWeight(_)
PathWeight(p) ==
    IF Len(p) <= 1 THEN 0
    ELSE weight[{p[1], p[2]}] + PathWeight(Tail(p))

\* Minimum cumulative weight from s to t (weights are nonnegative, so a
\* lightest path can be taken simple).
MinWeight(P) == Min({PathWeight(p) : p \in P})

MinDistance(s, t) == MinWeight(SimplePaths(s, t))

----------------------------------------------------------------------------
\* Properties.

BfsReturned == op = "bfs_path" /\ pc = "done"
DfsReturned == op \in {"dfs_path", "dfs_path_iterative"} /\ pc = "done"
DijkstraReturned == op = "dijkstra" /\ pc \in {"returned", "done"}

\* C1: for connected start and goal, bfs_path returns a path from start to
\* goal with at most as many edges as any simple path between them.
C1_BfsShortest ==
    (BfsReturned /\ Connected(start, goal)) =>
        /\ result # NoPath
        /\ IsPath(result, start, goal)
        /\ \A p \in SimplePaths(start, goal) : EdgeCount(result) <= EdgeCount(p)

\* BFS has returned a path of two or more edges although a longer simple
\* path between the endpoints exists.
C1_Witness ==
    /\ BfsReturned
    /\ Connected(start, goal)
    /\ EdgeCount(result) >= 2
    /\ \E p \in SimplePaths(start, goal) : EdgeCount(p) > EdgeCount(result)

\* C2: when dijkstra returns, every reachable node holds the minimum
\* cumulative weight from the source (0 for the source) and every unreachable
\* node holds infinity and no predecessor.
C2_DijkstraDistances ==
    DijkstraReturned =>
        LET fromStart == SimplePathsFrom(start) IN
        /\ distances[start] = 0
        /\ \A n \in nodes :
            LET routes == EndingAt(fromStart, n) IN
            IF routes # {}
            THEN distances[n] = MinWeight(routes)
            ELSE distances[n] = Infinity /\ previous[n] = None

\* dijkstra has returned on a graph where the lightest route to a neighbor of
\* the source is lighter than the direct edge, so that a queue entry went stale.
C2_Witness ==
    /\ DijkstraReturned
    /\ \E n \in nodes :
        /\ {start, n} \in edges
        /\ distances[n] < weight[{start, n}]
        /\ finalized[n].stale_pops >= 1

\* C3: for a reachable target, reconstruct_path on dijkstra's predecessor map
\* yields a path of the graph from source to target whose weight is
\* distances[target].
C3_ReconstructedWeight ==
    (op = "dijkstra" /\ pc = "done" /\ Connected(start, goal)) =>
        /\ IsPath(result, start, goal)
        /\ PathWeight(result) = distances[goal]

\* A path of two edges was reconstructed, lighter than the direct edge.
C3_Witness ==
    /\ op = "dijkstra" /\ pc = "done"
    /\ Connected(start, goal)
    /\ Len(result) = 3
    /\ {start, goal} \in edges
    /\ PathWeight(result) < weight[{start, goal}]

\* C4: when start or goal is not a node of the graph, each of dfs_path,
\* dfs_path_iterative and bfs_path returns None.
C4_AbsentEndpointNone ==
    ((BfsReturned \/ DfsReturned) /\ (start \notin nodes \/ goal \notin nodes))
        => result = NoPath

\* C5: a path returned by dfs_path or dfs_path_iterative begins with start,
\* ends with goal, joins consecutive nodes by edges and repeats no node.
C5_DfsPathSimple ==
    (DfsReturned /\ result # NoPath) =>
        /\ IsPath(result, start, goal)
        /\ IsSimple(result)

\* The iterative search returned a path of three or more nodes after it had
\* expanded a node that is not on that path.
C5_Witness ==
    /\ op = "dfs_path_iterative" /\ pc = "done"
    /\ result # NoPath
    /\ Len(result) >= 3
    /\ visited \ Range(result) # {}

\* C6: with start and goal both nodes of the graph, dfs_path and
\* dfs_path_iterative return a path exactly when goal is reachable from start.
C6_DfsComplete ==
    (DfsReturned /\ start \in nodes /\ goal \in nodes) =>
        (result # NoPath <=> Connected(start, goal))

\* The recursive search found a route although the first neighbor it tried
\* leads nowhere: the returned path does not continue with the least neighbor.
C6_Witness ==
    /\ op = "dfs_path" /\ pc = "done"
    /\ start \in nodes /\ goal \in nodes
    /\ result # NoPath
    /\ Len(result) >= 2
    /\ result[2] # Min(Neighbors(start))

\* C7: reconstruct_path on dijkstra's predecessor map returns the empty
\* sequence exactly when the target is unreachable, and [s] for the source.
C7_EmptyIffUnreachable ==
    (op = "dijkstra" /\ pc = "done") =>
        /\ (result = <<>>) <=> ~Connected(start, goal)
        /\ (goal = start) => (result = <<start>>)

\* reconstruct_path returned the empty sequence for an unreachable target.
C7_Witness ==
    /\ op = "dijkstra" /\ pc = "done"
    /\ ~Connected(start, goal)
    /\ result = <<>>

\* C8: compare_paths returns the results of dfs_path and bfs_path, each with
\* its node count as length, and length 0 exactly when the path is None.
C8_ComparePaths ==
    (op = "compare_paths" /\ pc = "done") =>
        /\ comparison.dfs_path = dfs_path(start, goal, <<>>)
        /\ comparison.bfs_path = bfs_path(start, goal)
        /\ comparison.dfs_path # NoPath => comparison.dfs_length = Len(comparison.dfs_path)
        /\ comparison.bfs_path # NoPath => comparison.bfs_length = Len(comparison.bfs_path)
        /\ (comparison.dfs_length = 0) <=> (comparison.dfs_path = NoPath)
        /\ (comparison.bfs_length = 0) <=> (comparison.bfs_path = NoPath)

\* compare_paths returned a DFS path longer than the BFS path.
C8_Witness ==
    /\ op = "compare_paths" /\ pc = "done"
    /\ comparison.bfs_path # NoPath
    /\ comparison.dfs_length > comparison.bfs_length

\* C9: a node is finalized at most once; when it is, the popped distance is
\* its DistanceMap entry and the true minimum distance; from then on its
\* DistanceMap and PredecessorMap entries keep the values they had.
C9_FinalizedOnce ==
    (op = "dijkstra" /\ pc # "call") =>
        LET fromStart == SimplePathsFrom(start) IN
        \A n \in nodes :
            /\ finalized[n].times <= 1
            /\ (n \in visited) <=> (finalized[n].times = 1)
            /\ n \in visited =>
                /\ finalized[n].popped = finalized[n].distance
                /\ finalized[n].popped = MinWeight(EndingAt(fromStart, n))
                /\ distances[n] = finalized[n].distance
                /\ previous[n] = finalized[n].previous

\* A stale entry of an already finalized node has been popped and skipped.
C9_Witness ==
    /\ op = "dijkstra" /\ pc # "call"
    /\ \E n \in nodes : finalized[n].times = 1 /\ finalized[n].stale_pops >= 1

\* C10: in bfs_path the visited set is the set of nodes enqueued so far, no
\* node is enqueued twice, and each queue entry carries a simple path from
\* start to its node with the minimum edge count.
C10_BfsQueue ==
    (op = "bfs_path" /\ pc # "call" /\ start \in nodes /\ goal \in nodes
                     /\ start # goal) =>
        LET fromStart == SimplePathsFrom(start) IN
        /\ \A n \in nodes : enqueued[n] <= 1
        /\ visited = {n \in nodes : enqueued[n] >= 1}
        /\ \A i \in 1..Len(queue) :
            /\ queue[i][1] \in visited
            /\ IsPath(queue[i][2], start, queue[i][1])
            /\ IsSimple(queue[i][2])
            /\ \A p \in EndingAt(fromStart, queue[i][1]) :
                   EdgeCount(queue[i][2]) <= EdgeCount(p)

\* After a dequeue the queue holds two entries, one of them for a node that
\* also has a longer simple path from start than the path stored with it.
C10_Witness ==
    /\ op = "bfs_path" /\ pc = "loop"
    /\ start \in nodes /\ goal \in nodes /\ start # goal
    /\ Len(queue) >= 2
    /\ \E n \in visited : \A i \in 1..Len(queue) : queue[i][1] # n
    /\ \E i \in 1..Len(queue) :
        \E p \in SimplePaths(start, queue[i][1]) :
            EdgeCount(p) > EdgeCount(queue[i][2])

\* Lexicographic order of node sequences of equal length, by label order.
LexLeq(p, q) ==
    \/ p = q
    \/ \E i \in 1..Len(p) :
        /\ \A j \in 1..(i - 1) : p[j] = q[j]
        /\ p[i] < q[i]

\* The paths from s to t with the minimum edge count.
ShortestPaths(s, t) ==
    LET routes == SimplePaths(s, t) IN
    {p \in routes : \A q \in routes : EdgeCount(p) <= EdgeCount(q)}

\* C11: for connected start and goal, bfs_path returns the lexicographically
\* least of the paths with the minimum edge count.
C11_BfsLexLeast ==
    (BfsReturned /\ Connected(start, goal)) =>
        LET shortest == ShortestPaths(start, goal) IN
        /\ result \in shortest
        /\ \A p \in shortest : LexLeq(result, p)

\* BFS has returned although another path of the same minimum edge count
\* exists, one that leaves start by a different neighbor.
C11_Witness ==
    /\ BfsReturned
    /\ Connected(start, goal)
    /\ result # NoPath
    /\ \E p \in ShortestPaths(start, goal) : p # result /\ p[2] # result[2]

\* C12: with start and goal both nodes of the graph, dfs_path_iterative
\* returns what dfs_path returns, the same node sequence or None.
C12_DfsVariantsAgree ==
    (op = "dfs_path_iterative" /\ pc = "done" /\ start \in nodes /\ goal \in nodes)
        => result = dfs_path(start, goal, <<>>)

\* The iterative search returned a path between endpoints joined by several
\* simple paths, after expanding a node that is not on the returned path.
C12_Witness ==
    /\ op = "dfs_path_iterative" /\ pc = "done"
    /\ start \in nodes /\ goal \in nodes
    /\ result # NoPath
    /\ Cardinality(SimplePaths(start, goal)) >= 2
    /\ visited \ Range(result) # {}

RECURSIVE WalkWithin(_, _, _)
\* The backward walk from current over prev reaches None after visiting at
\* most fuel nodes.
WalkWithin(prev, current, fuel) ==
    IF current = None THEN TRUE
    ELSE IF fuel = 0 THEN FALSE
    ELSE WalkWithin(prev, prev[current], fuel - 1)

\* C13: a predecessor entry names a finalized node, finalized before the node
\* of the entry and written before that node was finalized; so the backward
\* walk from any node ends after at most as many nodes as the graph has.
C13_PredecessorsAcyclic ==
    (op = "dijkstra" /\ pc # "call") =>
        /\ \A n \in nodes :
            previous[n] # None =>
                /\ previous[n] \in visited
                /\ finalized[previous[n]].times = 1
                /\ n \in visited =>
                    /\ finalized[previous[n]].order < finalized[n].order
                    /\ previous[n] = finalized[n].previous
        /\ \A target \in nodes : WalkWithin(previous, target, Cardinality(nodes))
        /\ pc = "done" => Len(result) <= Cardinality(nodes)

\* A path over two predecessor links was reconstructed, for a target whose
\* entry had first named the source and was overwritten.
C13_Witness ==
    /\ op = "dijkstra" /\ pc = "done"
    /\ Len(result) = 3
    /\ previous[goal] # start
    /\ {start, goal} \in edges
    /\ finalized[goal].stale_pops >= 1

====
